---- MODULE Spec2Model ----
(***************************************************************************)
(* Direct-to-display presentation engine of the Vulkan WSI layer           *)
(* (wsi/display/swapchain.cpp): image status tracking, present_image with  *)
(* its mode-set / page-flip / select() wait loop, image allocation and     *)
(* destruction, together with the lifecycle manager (swapchain_base) and   *)
(* the kernel display device that they talk to.                            *)
(*                                                                         *)
(* Two threads: "pres", the presentation worker that runs present_image,   *)
(* and "app", the application thread that creates, allocates, acquires and *)
(* destroys images.  The kernel completes page flips on its own.           *)
(***************************************************************************)
EXTENDS Integers, FiniteSets, Sequences, TLC

\* ------------------------------------------------------------------------
\* Bounds
\* ------------------------------------------------------------------------
NumImages == 2
MaxPresentId == 1
NumModifiers == 2

Images == 0 .. (NumImages - 1)
PresentIds == 1 .. MaxPresentId
Modifiers == 1 .. NumModifiers

\* ------------------------------------------------------------------------
\* Program constants
\* ------------------------------------------------------------------------
\* std::numeric_limits<uint32_t>::max(), "no framebuffer created": written
\* as the same bit pattern read as a signed 32-bit integer
FB_SENTINEL == -1

Statuses == {"INVALID", "FREE", "ACQUIRED", "PRESENTED"}
VK_SUCCESS == "VK_SUCCESS"
VK_ERROR_SURFACE_LOST_KHR == "VK_ERROR_SURFACE_LOST_KHR"
VK_ERROR_INITIALIZATION_FAILED == "VK_ERROR_INITIALIZATION_FAILED"
VK_ERROR_OUT_OF_HOST_MEMORY == "VK_ERROR_OUT_OF_HOST_MEMORY"
VK_ERROR_FORMAT_NOT_SUPPORTED == "VK_ERROR_FORMAT_NOT_SUPPORTED"

\* errno values select() can leave behind; EBADF stands for every errno that
\* is neither EINTR nor EAGAIN
Errnos == {"EINTR", "EAGAIN", "EBADF"}

VARIABLES
    status,             \* swapchain_image::status, per image
    image,              \* swapchain_image::image != VK_NULL_HANDLE
    data,               \* swapchain_image::data != nullptr
    buffers,            \* image_data->external_mem: unset, plane layout of the
                        \* probe, or allocated buffer fds
    fb_id,              \* image_data->fb_id
    memory,             \* external memory imported and bound to the image
    present_fence,      \* image_data->present_fence created
    format_defined,     \* m_image_create_info.format != VK_FORMAT_UNDEFINED
    m_allocated_format, \* m_image_creation_parameters.m_allocated_format
    drm_format_props,   \* modifier list of the device for the format
    display_modifiers,  \* modifiers the display supports for the format
    display,            \* drm_display::get_display().has_value()
    m_first_present,    \* swapchain_base::m_first_present
    error_state,        \* swapchain_base error state (set_error_state)
    present_id_enabled, \* m_device_data.is_present_id_enabled()
    present_id,         \* value published through wsi_ext_present_id
    teardown,           \* the lifecycle manager has begun tearing down
    mutex,              \* m_image_status_mutex: owner and recursion depth
    kfb,                \* kernel framebuffer objects that exist
    crtc_fb,            \* framebuffer the CRTC scans out (0: none)
    flip,               \* a page flip is pending in the kernel
    flip_fb,            \* framebuffer of the pending page flip
    evq_cur,            \* completion event of the latest request is readable
    evq_old,            \* completion event of an abandoned request is readable
    ppc,                \* position of the presentation thread
    pimg,               \* pending_present.image_index
    preq_id,            \* pending_present.present_id
    page_flip_complete, \* local of present_image, written by page_flip_event
    fds,                \* the drm fd is a member of the local fd_set
    presented_index,    \* local of present_image
    apc,                \* position of the application thread
    aimg,               \* image the application thread is working on
    aresult,            \* VkResult of the application thread's last call
    acall,              \* history of the application thread's running call
    m_wsi_allocator,    \* m_wsi_allocator != nullptr
    neg,                \* a call of get_surface_compatible_formats: its result
    planes,             \* a call of allocate_wsialloc past the allocator:
                        \* the allocator's result and what is made of it
    fbe,                \* wsi_ext_frame_boundary and its latest call
    bind,               \* a followed call of create_framebuffer: what the
                        \* display and the kernel answer, and what it did
    call,               \* history of the running present_image call
    hist                \* history of the swapchain

vars == << status, image, data, buffers, fb_id, memory, present_fence,
           format_defined, m_allocated_format, drm_format_props,
           display_modifiers, display, m_first_present, error_state,
           present_id_enabled, present_id, teardown, mutex, kfb, crtc_fb,
           flip, flip_fb, evq_cur, evq_old, ppc, pimg, preq_id,
           page_flip_complete, fds, presented_index, apc, aimg, aresult,
           acall, m_wsi_allocator, neg, planes, fbe, bind, call, hist >>

imgVars == << image, data, buffers, fb_id, memory, present_fence >>
devVars == << drm_format_props, display_modifiers, display,
             present_id_enabled >>
pureVars == << neg, planes, fbe, bind >>
envVars == << format_defined, m_allocated_format, devVars, teardown,
             m_wsi_allocator, pureVars >>
appVars == << apc, aimg, aresult, acall >>
presVars == << ppc, pimg, preq_id, page_flip_complete, fds, presented_index >>
kernelVars == << kfb, crtc_fb, flip, flip_fb, evq_cur, evq_old >>

\* ------------------------------------------------------------------------
\* m_image_status_mutex (std::recursive_mutex)
\* ------------------------------------------------------------------------
NoOwner == "none"
MutexFree == [owner |-> NoOwner, depth |-> 0]
CanLock(t) == mutex.owner \in {NoOwner, t}
Lock(t) == [owner |-> t, depth |-> mutex.depth + 1]
Unlock(t) == IF mutex.depth = 1 THEN MutexFree
             ELSE [owner |-> t, depth |-> mutex.depth - 1]
Holds(t) == mutex.owner = t /\ mutex.depth > 0

\* ------------------------------------------------------------------------
\* History of one present_image call
\* ------------------------------------------------------------------------
NoCall == [ first       |-> FALSE,  \* m_first_present on entry
            modesets    |-> 0,      \* drmModeSetCrtc requests issued
            flips       |-> 0,      \* drmModePageFlip requests issued
            ioctl_fb    |-> 0,      \* framebuffer id handed to the ioctl
            fb_live     |-> FALSE,  \* that framebuffer existed at the ioctl
            ioctl_fail  |-> FALSE,  \* the mode-set / page-flip ioctl failed
            lost        |-> FALSE,  \* the call invoked set_error_state
            was_lost    |-> FALSE,  \* the swapchain was lost on entry
            accepted    |-> FALSE,  \* the page-flip request was accepted
            cb          |-> FALSE,  \* page_flip_event ran for this request
            select      |-> "NONE", \* outcome of the latest select()
            writes      |-> {},     \* images whose status the call wrote
            marked      |-> {},     \* images marked PRESENTED, with the status
                                    \* they had and whether they had buffers
                                    \* and a framebuffer
            prev        |-> {},     \* images PRESENTED on entry
            released    |-> << >>,  \* indices handed to unpresent_image
            published   |-> << >> ] \* present ids handed to set_present_id

\* ------------------------------------------------------------------------
\* History of one call of the application thread
\* ------------------------------------------------------------------------
NoACall == [ op           |-> "none",       \* the operation that is running
             entry_status |-> "INVALID",    \* status of the image on entry
             repeat       |-> FALSE,  \* destroy_image had returned for the image
             issued       |-> {},     \* teardown steps the call has issued
             negotiated   |-> FALSE,  \* the format negotiation ran
             no_common    |-> FALSE,  \* ... and found no common modifier
             requests     |-> << >>,  \* wsialloc_alloc requests: their flags,
                                      \* candidates and the images that exist
             wsialloc     |-> "NOT_CALLED",  \* result of wsialloc_alloc
             pre_format   |-> [fourcc |-> "0", modifier |-> 0, flags |-> {}],
             pre_buffers  |-> "unset" ]     \* external_mem on entry

\* a status write by operation op: remembered when the writing thread did
\* not hold m_image_status_mutex
StatusWrite(op, locked) == IF locked THEN {} ELSE {op}

PresentedSet(st) == { i \in Images : st[i] = "PRESENTED" }

\* lines 142, 376, 513, 654: drm_display::get_display().has_value()
DisplayLookup_Found(d) == TRUE
DisplayLookup(d) == d

\* display ioctls that were issued while there was no display
Blind(ioctls) == IF display THEN {} ELSE ioctls

\* ------------------------------------------------------------------------
\* swapchain::present_image, pure parts
\* ------------------------------------------------------------------------

\* line 520: which request the call issues
PresentPath_AlwaysFlip(first) == "pageflip"
PresentPath(first) == IF first THEN "modeset" ELSE "pageflip"

\* lines 529-535 and 545-550: where the call goes after the ioctl
AfterIoctl_FallThrough(path, drm_res) ==
    IF path = "modeset" \/ drm_res # 0 THEN "find" ELSE "wait"
AfterIoctl(path, drm_res) ==
    IF drm_res # 0 THEN "return"
    ELSE IF path = "modeset" THEN "find" ELSE "wait"

\* lines 565 and 588: errno values after which the wait is retried
IsRetryErrno_OnlyEintr(e) == e = "EINTR"
IsRetryErrno(e) == e \in {"EINTR", "EAGAIN"}

\* lines 563-570: a failed select() that ends the loop with `break'
SelectIsFatal(drm_res, e) == drm_res < 0 /\ ~IsRetryErrno(e)

\* line 588: the condition of the do-while loop
WaitAgain(drm_res, e, complete) ==
    (drm_res = -1 /\ IsRetryErrno(e)) \/ drm_res = 0 \/ ~complete

\* lines 561-576: what select() leaves in the fd_set: a timeout clears it,
\* an error leaves it alone, a ready descriptor stays set
FdsAfterSelect(drm_res, watched) ==
    IF drm_res = 0 THEN FALSE ELSE watched

\* lines 592-602: index of the first PRESENTED image, size() when none
RECURSIVE FirstPresentedFrom(_, _)
FirstPresentedFrom_None(st, i) == NumImages
FirstPresentedFrom(st, i) ==
    IF i >= NumImages THEN NumImages
    ELSE IF st[i] = "PRESENTED" THEN i
    ELSE FirstPresentedFrom(st, i + 1)

FindPresented_None(st, first) == NumImages
FindPresented(st, first) ==
    IF ~first THEN FirstPresentedFrom(st, 0) ELSE NumImages

\* line 607
MarkPresented_First(st, i) == [st EXCEPT ![0] = "PRESENTED"]
MarkPresented(st, i) == [st EXCEPT ![i] = "PRESENTED"]

\* lines 609-613: the present ids handed to set_present_id
PublishedIds_None(enabled, id) == << >>
PublishedIds(enabled, id) == IF enabled THEN << id >> ELSE << >>

\* wsi_ext_present_id::set_present_id for each of them
RECURSIVE set_present_id(_, _)
set_present_id(cur, ids) ==
    IF ids = << >> THEN cur ELSE set_present_id(Head(ids), Tail(ids))

\* ------------------------------------------------------------------------
\* Kernel display device
\* ------------------------------------------------------------------------
Readable == evq_cur \/ evq_old

\* drmModeAddFB2 hands out an id that no live framebuffer has; the id made
\* for image i is named i + 1
NewFbId(i) == i + 1

\* ------------------------------------------------------------------------
\* Format negotiation (get_surface_compatible_formats, lines 136-252) and
\* the buffer allocator (wsialloc)
\* ------------------------------------------------------------------------

\* the VkImageCreateInfo the swapchain asks for (lines 136, 213-224)
image_create_info ==
    [ extent |-> [width |-> 1, height |-> 1, depth |-> 1],
      mipLevels |-> 1, arrayLayers |-> 1, samples |-> 1 ]

\* util::drm::vk_to_drm_format(info.format), line 153
Fourcc == "XRGB8888"

\* m_image_creation_parameters.m_allocated_format as constructed (line 53)
NoFormat == [fourcc |-> "0", modifier |-> 0, flags |-> {}]

\* limits that GetPhysicalDeviceImageFormatProperties2KHR reports
LimitsFit ==
    [ maxExtent |-> [width |-> 1, height |-> 1, depth |-> 1],
      maxMipLevels |-> 1, maxArrayLayers |-> 1, sampleCounts |-> {1} ]
LimitsNarrow ==
    [ maxExtent |-> [width |-> 0, height |-> 1, depth |-> 1],
      maxMipLevels |-> 1, maxArrayLayers |-> 1, sampleCounts |-> {1} ]

\* what the device can report for modifier m: an entry of the modifier
\* list (VkDrmFormatModifierPropertiesEXT) with the answer to the image
\* format query for it
DeviceProps(m) ==
    { [ drmFormatModifier |-> m, disjoint |-> FALSE, result |-> VK_SUCCESS,
        limits |-> LimitsFit, importable |-> im, exportable |-> ex ] :
        im \in BOOLEAN, ex \in BOOLEAN }
    \cup
    { [ drmFormatModifier |-> m, disjoint |-> TRUE, result |-> VK_SUCCESS,
        limits |-> LimitsFit, importable |-> TRUE, exportable |-> TRUE ],
      [ drmFormatModifier |-> m, disjoint |-> FALSE,
        result |-> VK_ERROR_FORMAT_NOT_SUPPORTED,
        limits |-> LimitsFit, importable |-> TRUE, exportable |-> TRUE ],
      [ drmFormatModifier |-> m, disjoint |-> FALSE, result |-> VK_SUCCESS,
        limits |-> LimitsNarrow, importable |-> TRUE, exportable |-> TRUE ] }

\* the modifier lists a device can report: the entries for a set of
\* modifiers, in ascending order
RECURSIVE PropLists(_)
PropLists(m) ==
    IF m > NumModifiers THEN { << >> }
    ELSE LET rest == PropLists(m + 1)
         IN rest \cup { << p >> \o s : p \in DeviceProps(m), s \in rest }

\* limits that leave out the requested image in one respect
LimitsShort ==
    { [LimitsFit EXCEPT !.maxExtent.width = 0],
      [LimitsFit EXCEPT !.maxExtent.height = 0],
      [LimitsFit EXCEPT !.maxExtent.depth = 0],
      [LimitsFit EXCEPT !.maxMipLevels = 0],
      [LimitsFit EXCEPT !.maxArrayLayers = 0],
      [LimitsFit EXCEPT !.sampleCounts = {4}] }

\* every answer the device can give for modifier m
QueryProps(m) ==
    { [ drmFormatModifier |-> m, disjoint |-> d, result |-> VK_SUCCESS,
        limits |-> LimitsFit, importable |-> im, exportable |-> ex ] :
        d \in BOOLEAN, im \in BOOLEAN, ex \in BOOLEAN }
    \cup
    { [ drmFormatModifier |-> m, disjoint |-> FALSE, result |-> VK_SUCCESS,
        limits |-> l, importable |-> TRUE, exportable |-> TRUE ] :
        l \in LimitsShort }
    \cup
    { [ drmFormatModifier |-> m, disjoint |-> FALSE,
        result |-> VK_ERROR_FORMAT_NOT_SUPPORTED,
        limits |-> LimitsFit, importable |-> TRUE, exportable |-> TRUE ] }

\* the modifier lists a device can report, in any order, no modifier twice
RECURSIVE QueryLists(_)
QueryLists(left) ==
    { << >> } \cup
    UNION { { << p >> \o rest : p \in QueryProps(m),
                                rest \in QueryLists(left \ {m}) } :
            m \in left }

\* a device with one modifier that the display scans out and the allocator
\* can import and export
TypicalProps ==
    << [ drmFormatModifier |-> 1, disjoint |-> FALSE, result |-> VK_SUCCESS,
         limits |-> LimitsFit, importable |-> TRUE, exportable |-> TRUE ] >>

\* line 155: display->is_format_supported
DisplaySupports_Any(prop, supported) == TRUE
DisplaySupports(prop, supported) == prop.drmFormatModifier \in supported

\* lines 209-227: the capability query succeeded and the image fits the
\* limits it reported
WithinLimits_NoLayers(info, prop) ==
    /\ prop.result = VK_SUCCESS
    /\ ~(prop.limits.maxExtent.width < info.extent.width
         \/ prop.limits.maxExtent.height < info.extent.height
         \/ prop.limits.maxExtent.depth < info.extent.depth)
    /\ ~(prop.limits.maxMipLevels < info.mipLevels)
    /\ info.samples \in prop.limits.sampleCounts
WithinLimits(info, prop) ==
    /\ prop.result = VK_SUCCESS
    /\ ~(prop.limits.maxExtent.width < info.extent.width
         \/ prop.limits.maxExtent.height < info.extent.height
         \/ prop.limits.maxExtent.depth < info.extent.depth)
    /\ ~(prop.limits.maxMipLevels < info.mipLevels
         \/ prop.limits.maxArrayLayers < info.arrayLayers)
    /\ info.samples \in prop.limits.sampleCounts

\* lines 155-227: the modifier passes the display and the limits checks
ModifierUsable_AnyDisplay(info, prop, supported) == WithinLimits(info, prop)
ModifierUsable(info, prop, supported) ==
    DisplaySupports(prop, supported) /\ WithinLimits(info, prop)

\* lines 238-244: the candidate handed to the allocator
ImportFormat(prop) ==
    [ fourcc |-> Fourcc, modifier |-> prop.drmFormatModifier,
      flags |-> IF prop.disjoint THEN {} ELSE {"NON_DISJOINT"} ]

\* lines 151-249: the loop over the modifier list, from entry k on
RECURSIVE CompatibleFrom(_, _, _, _, _)
CompatibleFrom(info, props, supported, k, acc) ==
    IF k > Len(props) THEN acc
    ELSE LET prop == props[k]
             usable == ModifierUsable(info, prop, supported)
             next == [ importable |->
                          IF usable /\ prop.importable
                          THEN Append(acc.importable, ImportFormat(prop))
                          ELSE acc.importable,
                       exportable |->
                          IF usable /\ prop.exportable
                          THEN Append(acc.exportable, prop.drmFormatModifier)
                          ELSE acc.exportable ]
         IN CompatibleFrom(info, props, supported, k + 1, next)

get_surface_compatible_formats(info, props, supported) ==
    CompatibleFrom(info, props, supported, 1,
                   [importable |-> << >>, exportable |-> << >>])

\* the (format, modifier) pairs that device and display have in common
CommonModifiers(props, supported) ==
    { props[k].drmFormatModifier : k \in 1 .. Len(props) } \cap supported

\* wsialloc_alloc: the allocator's answer to a request with the given
\* candidates; NONE comes with one of the candidates as the chosen format
WsiallocErrors == {"WSIALLOC_ERROR_NOT_SUPPORTED", "WSIALLOC_ERROR_NO_RESOURCE"}
WsiallocAnswers(candidates) ==
    { [res |-> "WSIALLOC_ERROR_NONE", format |-> candidates[k]] :
        k \in 1 .. Len(candidates) }
    \cup { [res |-> e, format |-> NoFormat] : e \in WsiallocErrors }

\* lines 295-304: the VkResult of allocate_wsialloc for an allocator result
AllocResult_AlwaysOom(res) ==
    IF res = "WSIALLOC_ERROR_NONE" THEN VK_SUCCESS
    ELSE VK_ERROR_OUT_OF_HOST_MEMORY
AllocResult(res) ==
    IF res = "WSIALLOC_ERROR_NONE" THEN VK_SUCCESS
    ELSE IF res = "WSIALLOC_ERROR_NOT_SUPPORTED"
         THEN VK_ERROR_FORMAT_NOT_SUPPORTED
         ELSE VK_ERROR_OUT_OF_HOST_MEMORY

\* line 465: the negotiation runs while no image has been fully specified
NeedsNegotiation_Always(defined) == TRUE
NeedsNegotiation(defined) == ~defined

\* ------------------------------------------------------------------------
\* allocate_wsialloc, lines 284-332: what is made of the allocator's result
\* ------------------------------------------------------------------------

\* number of plane slots of a wsialloc_allocate_result (lines 284-294)
WSIALLOC_MAX_PLANES == 4
PlaneSlots == 1 .. WSIALLOC_MAX_PLANES

\* lines 291-294: a slot without a buffer
NoFd == -1

\* file descriptors the allocator can hand out
Fds == 1 .. WSIALLOC_MAX_PLANES

\* the results wsialloc_alloc can give for a format of n planes: every plane
\* lies in a memory object that its file descriptor names, the other slots
\* are left as they were, and the planes are reported disjoint when they do
\* not all lie in one memory object; a request without memory gets no
\* buffers
AllocatorResults(n, no_memory) ==
    IF no_memory
    THEN { [ num_planes |-> n, buffer_fds |-> [k \in PlaneSlots |-> NoFd],
             is_disjoint |-> d ] : d \in BOOLEAN }
    ELSE { [ num_planes |-> n, buffer_fds |-> f,
             is_disjoint |-> (Cardinality({ f[k] : k \in 1 .. n }) > 1) ] :
           f \in { g \in [PlaneSlots -> Fds \cup {NoFd}] :
                     \A k \in PlaneSlots : (g[k] = NoFd) <=> (k > n) } }

\* lines 317-319: std::find of the plane's descriptor in the slots after it
FoundLater_FromSelf(bfds, i) == \E k \in i .. WSIALLOC_MAX_PLANES : bfds[k] = bfds[i]
FoundLater(bfds, i) == \E k \in (i + 1) .. WSIALLOC_MAX_PLANES : bfds[k] = bfds[i]

\* lines 315-325: the planes, from plane i on, whose descriptor does not
\* occur again
RECURSIVE CountMemoryPlanes(_, _, _)
CountMemoryPlanes_AllSlots(bfds, n, i) ==
    Cardinality({ k \in i .. WSIALLOC_MAX_PLANES : ~FoundLater(bfds, k) })
CountMemoryPlanes(bfds, n, i) ==
    IF i > n THEN 0
    ELSE (IF FoundLater(bfds, i) THEN 0 ELSE 1) + CountMemoryPlanes(bfds, n, i + 1)

NoPlanes == [ stage |-> "idle" ]

TypeOK ==
    /\ status \in [Images -> Statuses]
    /\ image \in [Images -> BOOLEAN]
    /\ data \in [Images -> BOOLEAN]
    /\ buffers \in [Images -> {"unset", "probed", "allocated"}]
    /\ fb_id \in [Images -> (1 .. NumImages) \cup {FB_SENTINEL}]
    /\ memory \in [Images -> BOOLEAN]
    /\ present_fence \in [Images -> BOOLEAN]
    /\ format_defined \in BOOLEAN
    /\ m_allocated_format.modifier \in 0 .. NumModifiers
    /\ display_modifiers \subseteq Modifiers
    /\ Len(drm_format_props) <= NumModifiers
    /\ display \in BOOLEAN
    /\ m_first_present \in BOOLEAN
    /\ error_state \in {VK_SUCCESS, VK_ERROR_SURFACE_LOST_KHR}
    /\ present_id_enabled \in BOOLEAN
    /\ present_id \in 0 .. MaxPresentId
    /\ teardown \in BOOLEAN
    /\ mutex.owner \in {NoOwner, "app", "pres"}
    /\ mutex.depth \in 0 .. 2
    /\ kfb \subseteq 1 .. NumImages
    /\ crtc_fb \in 0 .. NumImages
    /\ flip \in BOOLEAN
    /\ flip_fb \in 0 .. NumImages
    /\ evq_cur \in BOOLEAN
    /\ evq_old \in BOOLEAN
    /\ ppc \in {"idle", "wait", "find", "release", "done", "aborted"}
    /\ pimg \in Images
    /\ preq_id \in 0 .. MaxPresentId
    /\ page_flip_complete \in BOOLEAN
    /\ fds \in BOOLEAN
    /\ presented_index \in 0 .. NumImages
    /\ apc \in {"idle", "alloc_locked", "alloc_fb", "destroy_locked",
                "destroy_marking", "destroy_unlocked", "returned"}
    /\ aimg \in Images
    /\ acall.op \in {"none", "create", "allocate", "destroy"}

InitCommon ==
    /\ status = [i \in Images |-> "INVALID"]
    /\ image = [i \in Images |-> FALSE]
    /\ data = [i \in Images |-> FALSE]
    /\ buffers = [i \in Images |-> "unset"]
    /\ fb_id = [i \in Images |-> FB_SENTINEL]
    /\ memory = [i \in Images |-> FALSE]
    /\ present_fence = [i \in Images |-> FALSE]
    /\ format_defined = FALSE
    /\ m_allocated_format = NoFormat
    /\ display \in BOOLEAN
    /\ m_first_present = TRUE
    /\ error_state = VK_SUCCESS
    /\ present_id_enabled \in BOOLEAN
    /\ present_id = 0
    /\ teardown = FALSE
    /\ mutex = MutexFree
    /\ kfb = {}
    /\ crtc_fb = 0
    /\ flip = FALSE
    /\ flip_fb = 0
    /\ evq_cur = FALSE
    /\ evq_old = FALSE
    /\ ppc = "idle"
    /\ pimg = 0
    /\ preq_id = 0
    /\ page_flip_complete = FALSE
    /\ fds = FALSE
    /\ presented_index = NumImages
    /\ apc = "idle"
    /\ aimg = 0
    /\ aresult = VK_SUCCESS
    /\ acall = NoACall
    /\ m_wsi_allocator = FALSE
    /\ call = NoCall
    \* setcrtc_ok: a mode-set has succeeded; unlocked_writes: operations that
    \* wrote a status without the lock; torn: images with a resource torn
    \* down by destroy_image; destroyed: images for which destroy_image has
    \* returned; rm_scanout: the framebuffer on scan-out was removed;
    \* negotiations: runs of the format negotiation; formats: formats that
    \* images were created with, allocated with or that the allocator chose;
    \* init_platform: none, ok or failed; deletes: calls of wsialloc_delete;
    \* destructed: the destructor has run; stale_alloc: wsialloc_alloc was
    \* called without an allocator; probes: NO_MEMORY requests; blind:
    \* display ioctls issued while there was no display
    /\ hist = [ setcrtc_ok |-> FALSE, unlocked_writes |-> {},
                torn |-> {}, destroyed |-> {}, rm_scanout |-> FALSE,
                negotiations |-> 0, formats |-> {},
                init_platform |-> "none", deletes |-> 0,
                destructed |-> FALSE, stale_alloc |-> FALSE, probes |-> 0,
                blind |-> {} ]

\* no call of the operations that are followed on their own
PureIdle ==
    /\ neg = [ stage |-> "idle" ]
    /\ planes = NoPlanes
    /\ fbe = [ stage |-> "idle" ]
    /\ bind = [ stage |-> "idle" ]

\* the swapchain as constructed, on a typical device
Init ==
    /\ InitCommon
    /\ PureIdle
    /\ drm_format_props = TypicalProps
    /\ display_modifiers = {1}

\* the swapchain as constructed, on any device and display
FormatInit ==
    /\ InitCommon
    /\ PureIdle
    /\ display
    /\ ~present_id_enabled
    /\ drm_format_props \in PropLists(1)
    /\ display_modifiers \in SUBSET Modifiers


Alive == ppc # "aborted"

\* ------------------------------------------------------------------------
\* Lifecycle manager (swapchain_base): the operations the engine calls into
\* ------------------------------------------------------------------------

\* set_error_state(VK_ERROR_SURFACE_LOST_KHR): marks the swapchain lost
set_error_state(err) == err

\* unpresent_image(presented_index): release-to-free of a presented image
unpresent_image(st, i) == [st EXCEPT ![i] = "FREE"]

\* ------------------------------------------------------------------------
\* swapchain::present_image, lines 508-550: display lookup, then the
\* mode-set of the first present or the page-flip request of a later one
\* ------------------------------------------------------------------------
PresentImage(i) ==
    /\ ppc = "idle"
    /\ ~teardown
    /\ status[i] = "ACQUIRED"
    /\ data[i]
    /\ \E pid \in (IF present_id_enabled THEN PresentIds ELSE {0}),
          drm_res \in {0, -1} :
        LET path == PresentPath(m_first_present)
            fb == fb_id[i]
            next == AfterIoctl(path, drm_res)
            entry == [NoCall EXCEPT
                        !.first = m_first_present,
                        !.prev = PresentedSet(status),
                        !.was_lost = (error_state = VK_ERROR_SURFACE_LOST_KHR)]
        IN
        /\ pimg' = i
        /\ preq_id' = pid
        /\ presented_index' = NumImages
        /\ IF ~DisplayLookup(display)
           THEN /\ drm_res = -1
                /\ error_state' = set_error_state(VK_ERROR_SURFACE_LOST_KHR)
                /\ ppc' = "done"
                /\ call' = [entry EXCEPT !.lost = TRUE]
                /\ UNCHANGED << kernelVars, page_flip_complete, fds, hist >>
           ELSE \* the kernel accepts a request only for a framebuffer that
                \* exists, and a page flip only when none is pending
                /\ (drm_res = 0) => (fb \in kfb /\ (path = "pageflip" => ~flip))
                /\ error_state' = IF drm_res # 0
                                  THEN set_error_state(VK_ERROR_SURFACE_LOST_KHR)
                                  ELSE error_state
                /\ ppc' = IF next = "return" THEN "done" ELSE next
                /\ call' = [entry EXCEPT
                              !.modesets = IF path = "modeset" THEN 1 ELSE 0,
                              !.flips = IF path = "pageflip" THEN 1 ELSE 0,
                              !.ioctl_fb = fb,
                              !.fb_live = (fb \in kfb),
                              !.ioctl_fail = (drm_res # 0),
                              !.lost = (drm_res # 0),
                              !.accepted = (path = "pageflip" /\ drm_res = 0)]
                /\ crtc_fb' = IF path = "modeset" /\ drm_res = 0 THEN fb ELSE crtc_fb
                /\ flip' = IF path = "pageflip" /\ drm_res = 0 THEN TRUE ELSE flip
                /\ flip_fb' = IF path = "pageflip" /\ drm_res = 0 THEN fb ELSE flip_fb
                /\ evq_old' = IF path = "pageflip" /\ drm_res = 0
                              THEN (evq_old \/ evq_cur) ELSE evq_old
                /\ evq_cur' = IF path = "pageflip" /\ drm_res = 0 THEN FALSE ELSE evq_cur
                /\ page_flip_complete' = FALSE
                /\ fds' = (path = "pageflip" /\ drm_res = 0)
                /\ hist' = [hist EXCEPT
                              !.setcrtc_ok =
                                 @ \/ (path = "modeset" /\ drm_res = 0),
                              !.blind = @ \cup Blind({path})]
                /\ UNCHANGED kfb
    /\ UNCHANGED << status, imgVars, envVars, appVars, m_first_present,
                    present_id, mutex >>

\* ------------------------------------------------------------------------
\* swapchain::present_image, lines 556-588: one iteration of the do-while
\* loop around select() and drmHandleEvent(), with page_flip_event (71-79)
\* ------------------------------------------------------------------------
PageFlipWait ==
    /\ ppc = "wait"
    /\ \E drm_res \in {-1, 0, 1}, e \in Errnos, alias \in BOOLEAN :
        LET watched_ready == fds /\ Readable
            outcome == IF drm_res = 1 THEN "READY"
                       ELSE IF drm_res = 0 THEN "TIMEOUT" ELSE e
            \* drmHandleEvent dispatches every readable event; the event of
            \* an abandoned request carries a pointer to a dead local, and
            \* the write through it may or may not land on this call's flag
            complete == IF drm_res = 1
                        THEN page_flip_complete \/ evq_cur \/ (evq_old /\ alias)
                        ELSE page_flip_complete
        IN
        \* select(): reports the descriptor when it is watched and readable,
        \* otherwise blocks until the timeout or a signal; it can fail with
        \* another errno at any time
        /\ (drm_res = 1) => watched_ready
        /\ (drm_res = 0) => ~watched_ready
        /\ (drm_res = -1 /\ e \in {"EINTR", "EAGAIN"}) => ~watched_ready
        /\ (drm_res # -1) => e = "EINTR"
        /\ (drm_res # 1 \/ ~evq_old) => alias = FALSE
        /\ fds' = FdsAfterSelect(drm_res, fds)
        /\ page_flip_complete' = complete
        /\ evq_cur' = IF drm_res = 1 THEN FALSE ELSE evq_cur
        /\ evq_old' = IF drm_res = 1 THEN FALSE ELSE evq_old
        /\ error_state' = IF SelectIsFatal(drm_res, e)
                          THEN set_error_state(VK_ERROR_SURFACE_LOST_KHR)
                          ELSE error_state
        /\ ppc' = IF SelectIsFatal(drm_res, e) THEN "find"
                  ELSE IF WaitAgain(drm_res, e, complete) THEN "wait"
                  ELSE "find"
        /\ call' = [call EXCEPT
                      !.select = outcome,
                      !.cb = @ \/ (drm_res = 1 /\ evq_cur),
                      !.lost = @ \/ SelectIsFatal(drm_res, e)]
    /\ UNCHANGED << status, imgVars, envVars, appVars, m_first_present,
                    present_id, mutex, kfb, crtc_fb, flip, flip_fb, pimg,
                    preq_id, presented_index, hist >>

\* ------------------------------------------------------------------------
\* swapchain::present_image, lines 591-613: find the presented image, mark
\* the new one PRESENTED, publish the present id
\* ------------------------------------------------------------------------
PresentMark ==
    /\ ppc = "find"
    /\ \E ndebug \in BOOLEAN :
        LET idx == FindPresented(status, m_first_present)
            assert_ok == m_first_present \/ idx < NumImages
            marked == MarkPresented(status, pimg)
        IN
        /\ presented_index' = idx
        /\ (assert_ok => ndebug)
        /\ IF ~assert_ok /\ ~ndebug
           THEN \* assert(presented_index < m_swapchain_images.size()) fails
                /\ ppc' = "aborted"
                /\ UNCHANGED << status, present_id, call, hist >>
           ELSE /\ status' = marked
                /\ present_id' = set_present_id(present_id,
                                     PublishedIds(present_id_enabled, preq_id))
                /\ ppc' = "release"
                /\ call' = [call EXCEPT
                              !.published =
                                 @ \o PublishedIds(present_id_enabled, preq_id),
                              !.writes =
                                 @ \cup { j \in Images : marked[j] # status[j] },
                              !.marked =
                                 { [ img |-> j, from |-> status[j],
                                     buffers |-> (buffers[j] = "allocated"),
                                     fb |-> (fb_id[j] \in kfb) ] :
                                   j \in { k \in Images :
                                             /\ marked[k] = "PRESENTED"
                                             /\ (k = pimg \/ status[k] # "PRESENTED") } }]
                /\ hist' = [hist EXCEPT !.unlocked_writes =
                              @ \cup StatusWrite("present_image", Holds("pres"))]
    /\ UNCHANGED << imgVars, envVars, appVars, kernelVars, m_first_present,
                    error_state, mutex, pimg, preq_id, page_flip_complete, fds >>

\* ------------------------------------------------------------------------
\* swapchain::present_image, lines 615-621: release the image that was
\* PRESENTED before; unpresent_image takes the image-status lock itself
\* ------------------------------------------------------------------------
PresentRelease ==
    /\ ppc = "release"
    /\ IF presented_index < NumImages
       THEN /\ CanLock("pres")
            /\ status' = unpresent_image(status, presented_index)
            /\ call' = [call EXCEPT
                          !.released = Append(@, presented_index),
                          !.writes = @ \cup {presented_index}]
            /\ hist' = [hist EXCEPT !.unlocked_writes =
                          @ \cup StatusWrite("unpresent_image", TRUE)]
       ELSE UNCHANGED << status, call, hist >>
    /\ ppc' = "done"
    /\ UNCHANGED << imgVars, envVars, appVars, kernelVars, m_first_present,
                    error_state, present_id, mutex, pimg, preq_id,
                    page_flip_complete, fds, presented_index >>

\* ------------------------------------------------------------------------
\* Lifecycle manager: present_image has returned; a first present that
\* succeeded moves the swapchain from NEVER_PRESENTED to STEADY_PRESENTING
\* ------------------------------------------------------------------------
PresentReturn ==
    /\ ppc = "done"
    /\ ppc' = "idle"
    /\ m_first_present' = IF call.first /\ ~call.lost THEN FALSE
                          ELSE m_first_present
    /\ call' = NoCall
    /\ pimg' = 0
    /\ preq_id' = 0
    /\ page_flip_complete' = FALSE
    /\ fds' = FALSE
    /\ presented_index' = NumImages
    /\ UNCHANGED << status, imgVars, envVars, appVars, kernelVars,
                    error_state, present_id, mutex, hist >>

\* ------------------------------------------------------------------------
\* Kernel: the pending page flip completes at a vertical blank and its
\* completion event becomes readable on the drm fd
\* ------------------------------------------------------------------------
FlipComplete ==
    /\ Alive
    /\ flip
    /\ flip' = FALSE
    /\ evq_cur' = TRUE
    /\ crtc_fb' = flip_fb
    /\ UNCHANGED << status, imgVars, envVars, appVars, presVars,
                    m_first_present, error_state, present_id, mutex, kfb,
                    flip_fb, evq_old, call, hist >>


\* ------------------------------------------------------------------------
\* swapchain::create_swapchain_image, lines 455-506.  r is the first step
\* that fails: the image_data allocation, the format negotiation (the
\* modifier list query or a vector that cannot grow, and the missing
\* display), an empty importable list, the probe allocation,
\* fill_image_create_info, the device's CreateImage; or "ok"
\* ------------------------------------------------------------------------
CreateOutcomes == {"data_oom", "negotiation", "empty", "probe", "layout",
                   "create_image", "ok"}

CreateResult(r) ==
    CASE r = "data_oom" -> VK_ERROR_OUT_OF_HOST_MEMORY
      [] r = "negotiation" -> VK_ERROR_OUT_OF_HOST_MEMORY
      [] r = "empty" -> VK_ERROR_INITIALIZATION_FAILED
      [] r = "layout" -> VK_ERROR_OUT_OF_HOST_MEMORY
      [] r = "create_image" -> VK_ERROR_OUT_OF_HOST_MEMORY
      [] OTHER -> VK_SUCCESS

\* lines 258-263: the flags of the allocator request
AllocationFlags_Never(avoid_allocation) == {}
AllocationFlags(avoid_allocation) ==
    IF avoid_allocation THEN {"WSIALLOC_ALLOCATE_NO_MEMORY"} ELSE {}

\* a request to wsialloc_alloc (line 295) as the history keeps it
Request(avoid_allocation, candidates) ==
    [ flags |-> AllocationFlags(avoid_allocation),
      candidates |-> candidates,
      images |-> { j \in Images : image[j] } ]

IsProbe(req) == "WSIALLOC_ALLOCATE_NO_MEMORY" \in req.flags

\* swapchain::init_platform, lines 111-125, called once by the lifecycle
\* manager before any image is created
InitPlatform ==
    /\ Alive
    /\ apc = "idle"
    /\ ~teardown
    /\ hist.init_platform = "none"
    /\ \E created \in BOOLEAN :
        /\ m_wsi_allocator' = created
        /\ hist' = [hist EXCEPT !.init_platform =
                      IF created THEN "ok" ELSE "failed"]
    /\ UNCHANGED << status, imgVars, format_defined, m_allocated_format,
                    devVars, teardown, pureVars, appVars, kernelVars,
                    presVars, m_first_present, error_state, present_id,
                    mutex, call >>

CreateSwapchainImage(i) ==
    /\ Alive
    /\ apc = "idle"
    /\ ~teardown
    /\ hist.init_platform = "ok"
    /\ ~data[i] /\ ~image[i] /\ status[i] = "INVALID"
    /\ \A j \in Images : j < i => image[j]
    /\ LET negotiate == NeedsNegotiation(format_defined)
           lists == get_surface_compatible_formats(image_create_info,
                        drm_format_props, display_modifiers)
       IN
       \E r \in CreateOutcomes, ans \in WsiallocAnswers(lists.importable) :
        LET listed == negotiate /\ r \notin {"data_oom", "negotiation"}
            probed == listed /\ r # "empty"
            cached == negotiate /\ r \in {"create_image", "ok"}
            fmt == IF cached THEN ans.format ELSE m_allocated_format
        IN
        \* the negotiation steps run only while the format is undefined;
        \* the lists cannot be made without a display (lines 144-149); an
        \* empty importable list ends the call (lines 479-483)
        /\ r \in {"negotiation", "empty", "probe", "layout"} => negotiate
        /\ (negotiate /\ ~DisplayLookup(display))
              => r \in {"data_oom", "negotiation"}
        /\ listed => ((r = "empty") <=> (lists.importable = << >>))
        /\ probed => ((r = "probe") <=> (ans.res # "WSIALLOC_ERROR_NONE"))
        /\ ~probed => ans.res = "WSIALLOC_ERROR_NOT_SUPPORTED"
        /\ data' = [data EXCEPT ![i] = (r # "data_oom")]
        /\ buffers' = [buffers EXCEPT ![i] =
                         IF probed /\ r # "probe" THEN "probed" ELSE @]
        /\ format_defined' = (format_defined \/ cached)
        /\ m_allocated_format' = fmt
        /\ image' = [image EXCEPT ![i] = (r = "ok")]
        /\ aresult' = IF r = "probe" THEN AllocResult(ans.res)
                      ELSE CreateResult(r)
        /\ acall' = [NoACall EXCEPT
                       !.op = "create",
                       !.negotiated = negotiate /\ r # "data_oom",
                       !.no_common = (CommonModifiers(drm_format_props,
                                                      display_modifiers) = {}),
                       !.requests =
                          IF probed
                          THEN << Request(TRUE, lists.importable) >>
                          ELSE << >>,
                       !.wsialloc = IF probed THEN ans.res ELSE "NOT_CALLED",
                       !.pre_format = m_allocated_format,
                       !.pre_buffers = buffers[i]]
        /\ hist' = [hist EXCEPT
                      !.negotiations =
                         IF negotiate /\ r # "data_oom" /\ @ < NumImages
                         THEN @ + 1 ELSE @,
                      !.formats =
                         IF r \in {"create_image", "ok"} THEN @ \cup {fmt}
                         ELSE @,
                      !.stale_alloc = @ \/ (probed /\ ~m_wsi_allocator),
                      !.probes =
                         IF probed /\ IsProbe(Request(TRUE, lists.importable))
                            /\ @ < NumImages
                         THEN @ + 1 ELSE @]
    /\ aimg' = i
    /\ apc' = "returned"
    /\ UNCHANGED << status, fb_id, memory, present_fence, devVars, teardown,
                    m_wsi_allocator, pureVars,
                    m_first_present, error_state, present_id, mutex,
                    kernelVars, presVars, call >>

\* Lifecycle manager: the swapchain's images have all been created
Initialized == \A j \in Images : image[j]

\* ------------------------------------------------------------------------
\* swapchain::allocate_and_bind_swapchain_image, lines 429-453
\* ------------------------------------------------------------------------

\* line 431: take the image-status lock
AllocateLock(i) ==
    /\ Alive
    /\ apc = "idle"
    /\ ~teardown
    /\ Initialized
    /\ data[i] /\ image[i] /\ status[i] = "INVALID"
    /\ CanLock("app")
    /\ mutex' = Lock("app")
    /\ apc' = "alloc_locked"
    /\ aimg' = i
    /\ acall' = [NoACall EXCEPT
                   !.op = "allocate",
                   !.entry_status = status[i],
                   !.pre_format = m_allocated_format,
                   !.pre_buffers = buffers[i]]
    /\ UNCHANGED << status, imgVars, envVars, kernelVars, presVars,
                    m_first_present, error_state, present_id, aresult,
                    call, hist >>

\* lines 432-437: status FREE, allocate_image (356-367) with the cached
\* format as the only candidate and as the place of the result, unlock; a
\* failed allocation returns and the unique_lock releases the mutex
AllocateImages ==
    /\ Alive
    /\ apc = "alloc_locked"
    /\ LET candidates == << m_allocated_format >>
       IN
       \E push_ok \in BOOLEAN, ans \in WsiallocAnswers(candidates) :
        LET res == AllocResult(ans.res)
            ok == push_ok /\ res = VK_SUCCESS
        IN
        /\ ~push_ok => ans.res = "WSIALLOC_ERROR_NOT_SUPPORTED"
        /\ status' = [status EXCEPT ![aimg] = "FREE"]
        /\ hist' = [hist EXCEPT
                      !.unlocked_writes =
                         @ \cup StatusWrite("allocate_and_bind_swapchain_image",
                                            Holds("app")),
                      !.formats =
                         IF push_ok
                         THEN @ \cup {candidates[1]}
                                \cup (IF ok THEN {ans.format} ELSE {})
                         ELSE @,
                      !.stale_alloc = @ \/ (push_ok /\ ~m_wsi_allocator),
                      !.probes =
                         IF push_ok /\ IsProbe(Request(FALSE, candidates))
                            /\ @ < NumImages
                         THEN @ + 1 ELSE @]
        /\ buffers' = [buffers EXCEPT ![aimg] = IF ok THEN "allocated" ELSE @]
        /\ m_allocated_format' = IF ok THEN ans.format ELSE m_allocated_format
        /\ mutex' = Unlock("app")
        /\ apc' = IF ok THEN "alloc_fb" ELSE "returned"
        /\ aresult' = IF push_ok THEN res ELSE VK_ERROR_OUT_OF_HOST_MEMORY
        /\ acall' = [acall EXCEPT
                       !.requests =
                          IF push_ok THEN << Request(FALSE, candidates) >>
                          ELSE << >>,
                       !.wsialloc = IF push_ok THEN ans.res ELSE "NOT_CALLED"]
    /\ UNCHANGED << image, data, fb_id, memory, present_fence,
                    format_defined, devVars, teardown, m_wsi_allocator,
                    pureVars, kernelVars, presVars,
                    m_first_present, error_state, present_id, aimg, call >>

\* what create_framebuffer and the rest of the call meet: the planes of the
\* image, the plane whose handle conversion fails (0: none), the display's
\* answers, the result of the creation ioctl, of the import and of the fence
BindInputs ==
    { inp \in [ num_planes : PlaneSlots, prime_fail : 0 .. WSIALLOC_MAX_PLANES,
                fmt_ok : BOOLEAN, fb_modifiers : BOOLEAN,
                addfb_fails : BOOLEAN, import_ok : BOOLEAN,
                fence_ok : BOOLEAN ] :
        inp.prime_fail <= inp.num_planes }

\* the same for an image of one plane, with every answer that the call does
\* not get to ask for left at one value
TypicalBindInputs ==
    { inp \in BindInputs :
        /\ inp.num_planes = 1
        /\ (inp.prime_fail # 0) => inp.fmt_ok
        /\ ~inp.fmt_ok => (inp.fb_modifiers /\ ~inp.addfb_fails)
        /\ (inp.prime_fail # 0 \/ ~inp.fmt_ok \/ inp.addfb_fails)
              => inp.import_ok
        /\ ~inp.import_ok => inp.fence_ok
        /\ (inp.prime_fail # 0 \/ ~inp.fmt_ok \/ inp.addfb_fails)
              => inp.fence_ok }

\* lines 405-418: the creation ioctl that is used
AddFbPath_Legacy(fb_modifiers) == "drmModeAddFB2"
AddFbPath(fb_modifiers) ==
    IF fb_modifiers THEN "drmModeAddFB2WithModifiers" ELSE "drmModeAddFB2"

\* lines 420-426
FramebufferResult_Ignored(addfb_fails) == VK_SUCCESS
FramebufferResult(addfb_fails) ==
    IF addfb_fails THEN VK_ERROR_INITIALIZATION_FAILED ELSE VK_SUCCESS

\* create_framebuffer, lines 369-427: its result, the handle conversions
\* that succeeded and those it asked for, whether the display was asked
\* about the format, the creation ioctls it issued and whether the kernel
\* made a framebuffer (the ioctl writes fb_id only then)
create_framebuffer(disp, inp) ==
    LET failed == [ result |-> VK_ERROR_INITIALIZATION_FAILED,
                    converted |-> 0, conversions |-> 0,
                    format_checked |-> FALSE,
                    ioctls |-> << >>, fb_made |-> FALSE ]
    IN
    IF ~DisplayLookup(disp) THEN failed
    ELSE IF inp.prime_fail # 0
    THEN [failed EXCEPT !.converted = inp.prime_fail - 1,
                        !.conversions = inp.prime_fail]
    ELSE IF ~inp.fmt_ok
    THEN [failed EXCEPT !.converted = inp.num_planes,
                        !.conversions = inp.num_planes,
                        !.format_checked = TRUE]
    ELSE [ result |-> FramebufferResult(inp.addfb_fails),
           converted |-> inp.num_planes, conversions |-> inp.num_planes,
           format_checked |-> TRUE,
           ioctls |-> << AddFbPath(inp.fb_modifiers) >>,
           fb_made |-> ~inp.addfb_fails ]

\* lines 439-452: create_framebuffer, memory import, fence
BindWith(inp) ==
    LET fb == create_framebuffer(display, inp)
        imported == fb.result = VK_SUCCESS /\ inp.import_ok
        fenced == imported /\ inp.fence_ok
    IN
    /\ fb_id' = IF fb.fb_made THEN [fb_id EXCEPT ![aimg] = NewFbId(aimg)]
                ELSE fb_id
    /\ kfb' = IF fb.fb_made THEN kfb \cup {NewFbId(aimg)} ELSE kfb
    /\ memory' = [memory EXCEPT ![aimg] = imported]
    /\ present_fence' = [present_fence EXCEPT ![aimg] = fenced]
    /\ aresult' = IF fb.result # VK_SUCCESS THEN fb.result
                  ELSE IF ~fenced THEN VK_ERROR_OUT_OF_HOST_MEMORY
                  ELSE VK_SUCCESS
    /\ apc' = "returned"
    /\ hist' = [hist EXCEPT !.blind =
                  @ \cup Blind((IF fb.conversions > 0
                                THEN {"drmPrimeFDToHandle"} ELSE {})
                               \cup { fb.ioctls[k] : k \in 1 .. Len(fb.ioctls) })]
    /\ UNCHANGED << status, image, data, buffers, format_defined,
                    m_allocated_format, devVars, teardown, m_wsi_allocator,
                    presVars, m_first_present, error_state, present_id,
                    mutex, crtc_fb, flip, flip_fb, evq_cur, evq_old, aimg,
                    acall, call >>

AllocateBind ==
    /\ Alive
    /\ apc = "alloc_fb"
    /\ bind.stage = "idle"
    /\ \E inp \in TypicalBindInputs : BindWith(inp)
    /\ UNCHANGED pureVars

\* the same step of a followed call: the answers are the chosen ones
AllocateBindFollowed ==
    /\ Alive
    /\ apc = "alloc_fb"
    /\ bind.stage = "chosen"
    /\ BindWith(bind.inp)
    /\ bind' = [ stage |-> "done", inp |-> bind.inp, img |-> aimg,
                 fb |-> create_framebuffer(display, bind.inp) ]
    /\ UNCHANGED << neg, planes, fbe >>

\* ------------------------------------------------------------------------
\* Lifecycle manager: the application acquires a FREE image; a lost
\* swapchain reports the loss instead
\* ------------------------------------------------------------------------
AcquireImage(i) ==
    /\ Alive
    /\ apc = "idle"
    /\ ~teardown
    /\ Initialized
    /\ error_state = VK_SUCCESS
    /\ status[i] = "FREE"
    /\ CanLock("app")
    /\ status' = [status EXCEPT ![i] = "ACQUIRED"]
    /\ hist' = [hist EXCEPT !.unlocked_writes =
                  @ \cup StatusWrite("acquire_next_image", TRUE)]
    /\ UNCHANGED << imgVars, envVars, appVars, kernelVars, presVars,
                    m_first_present, error_state, present_id, mutex, call >>

\* ------------------------------------------------------------------------
\* Lifecycle manager: takes the result of the call that has returned
\* ------------------------------------------------------------------------
CallReturned ==
    /\ Alive
    /\ apc = "returned"
    /\ apc' = "idle"
    /\ aimg' = 0
    /\ aresult' = VK_SUCCESS
    /\ acall' = NoACall
    /\ UNCHANGED << status, imgVars, envVars, kernelVars, presVars,
                    m_first_present, error_state, present_id, mutex, call,
                    hist >>

\* ------------------------------------------------------------------------
\* Lifecycle manager: teardown begins once the presentation worker has
\* stopped; from then on images are only destroyed
\* ------------------------------------------------------------------------
BeginTeardown ==
    /\ ppc = "idle"
    /\ apc = "idle"
    /\ ~teardown
    /\ teardown' = TRUE
    /\ UNCHANGED << status, imgVars, format_defined, m_allocated_format,
                    devVars, m_wsi_allocator, pureVars, appVars, kernelVars,
                    presVars,
                    m_first_present, error_state, present_id, mutex, call,
                    hist >>

\* ------------------------------------------------------------------------
\* swapchain::destroy_image, lines 637-672
\* ------------------------------------------------------------------------

\* line 639: take the image-status lock
DestroyLock(i) ==
    /\ Alive
    /\ apc = "idle"
    /\ teardown
    /\ ~hist.destructed
    /\ CanLock("app")
    /\ mutex' = Lock("app")
    /\ apc' = "destroy_locked"
    /\ aimg' = i
    /\ acall' = [NoACall EXCEPT
                   !.op = "destroy",
                   !.entry_status = status[i],
                   !.repeat = (i \in hist.destroyed)]
    /\ UNCHANGED << status, imgVars, envVars, kernelVars, presVars,
                    m_first_present, error_state, present_id, aresult,
                    call, hist >>

\* line 649
InvalidateStatus_Keep(st, i) == st
InvalidateStatus(st, i) == [st EXCEPT ![i] = "INVALID"]

\* line 654
HasImageData_Always(d) == TRUE
HasImageData(d) == d

\* lines 641-647: an image that is not INVALID has its GPU image destroyed;
\* an INVALID one is left alone and the lock is released (652)
DestroyGpuImage ==
    /\ Alive
    /\ apc = "destroy_locked"
    /\ IF status[aimg] # "INVALID"
       THEN /\ image' = [image EXCEPT ![aimg] = FALSE]
            /\ acall' = [acall EXCEPT !.issued =
                           @ \cup (IF image[aimg] THEN {"DestroyImage"} ELSE {})]
            /\ hist' = [hist EXCEPT !.torn =
                          @ \cup (IF image[aimg] THEN {aimg} ELSE {})]
            /\ apc' = "destroy_marking"
            /\ UNCHANGED mutex
       ELSE /\ mutex' = Unlock("app")
            /\ apc' = "destroy_unlocked"
            /\ UNCHANGED << image, acall, hist >>
    /\ UNCHANGED << status, data, buffers, fb_id, memory, present_fence,
                    envVars, kernelVars, presVars, m_first_present,
                    error_state, present_id, aimg, aresult, call >>

\* lines 649-652: status INVALID, unlock
DestroyMarkInvalid ==
    /\ Alive
    /\ apc = "destroy_marking"
    /\ status' = InvalidateStatus(status, aimg)
    /\ hist' = [hist EXCEPT !.unlocked_writes =
                  @ \cup StatusWrite("destroy_image", Holds("app"))]
    /\ mutex' = Unlock("app")
    /\ apc' = "destroy_unlocked"
    /\ UNCHANGED << imgVars, envVars, kernelVars, presVars, m_first_present,
                    error_state, present_id, aimg, aresult, acall, call >>

\* lines 654-671: without a display the call returns; otherwise remove the
\* kernel framebuffer, if one was made, and free the image data
DestroyTeardown ==
    /\ Alive
    /\ apc = "destroy_unlocked"
    /\ IF HasImageData(data[aimg]) /\ DisplayLookup(display)
       THEN LET rmfb == fb_id[aimg] # FB_SENTINEL
            IN
            /\ kfb' = IF rmfb THEN kfb \ {fb_id[aimg]} ELSE kfb
            /\ crtc_fb' = IF fb_id[aimg] = crtc_fb THEN 0 ELSE crtc_fb
            /\ data' = [data EXCEPT ![aimg] = FALSE]
            /\ buffers' = [buffers EXCEPT ![aimg] = "unset"]
            /\ fb_id' = [fb_id EXCEPT ![aimg] = FB_SENTINEL]
            /\ memory' = [memory EXCEPT ![aimg] = FALSE]
            /\ present_fence' = [present_fence EXCEPT ![aimg] = FALSE]
            /\ acall' = [acall EXCEPT !.issued =
                           @ \cup {"free"} \cup (IF rmfb THEN {"RmFB"} ELSE {})]
            /\ hist' = [hist EXCEPT
                          !.torn = @ \cup {aimg},
                          !.destroyed = @ \cup {aimg},
                          !.rm_scanout = @ \/ (rmfb /\ fb_id[aimg] = crtc_fb),
                          !.blind = @ \cup Blind(IF rmfb THEN {"drmModeRmFB"}
                                                 ELSE {})]
       ELSE /\ hist' = [hist EXCEPT !.destroyed = @ \cup {aimg}]
            /\ UNCHANGED << kfb, crtc_fb, data, buffers, fb_id, memory,
                            present_fence, acall >>
    /\ apc' = "returned"
    /\ aresult' = VK_SUCCESS
    /\ UNCHANGED << status, image, envVars, presVars, m_first_present,
                    error_state, present_id, mutex, flip, flip_fb, evq_cur,
                    evq_old, aimg, call >>

\* ------------------------------------------------------------------------
\* swapchain::~swapchain, lines 58-69, past the base class teardown, which
\* has called destroy_image for every image
\* ------------------------------------------------------------------------

\* line 64
ShouldDelete_Always(allocator) == TRUE
ShouldDelete(allocator) == allocator

ReleaseAllocator ==
    /\ Alive
    /\ ppc = "idle"
    /\ apc = "idle"
    /\ teardown
    /\ hist.destroyed = Images
    /\ ~hist.destructed
    /\ m_wsi_allocator' = FALSE
    /\ hist' = [hist EXCEPT
                  !.deletes = IF ShouldDelete(m_wsi_allocator) THEN @ + 1 ELSE @,
                  !.destructed = TRUE]
    /\ UNCHANGED << status, imgVars, format_defined, m_allocated_format,
                    devVars, teardown, pureVars, appVars, kernelVars,
                    presVars, m_first_present, error_state, present_id,
                    mutex, call >>

\* ------------------------------------------------------------------------
\* Specification
\* ------------------------------------------------------------------------
PresenterStep ==
    \/ \E i \in Images : PresentImage(i)
    \/ PageFlipWait
    \/ PresentMark
    \/ PresentRelease
    \/ PresentReturn

AppStep ==
    \/ InitPlatform
    \/ \E i \in Images : CreateSwapchainImage(i)
    \/ \E i \in Images : AllocateLock(i)
    \/ AllocateImages
    \/ AllocateBind
    \/ \E i \in Images : AcquireImage(i)
    \/ CallReturned
    \/ BeginTeardown
    \/ \E i \in Images : DestroyLock(i)
    \/ DestroyGpuImage
    \/ DestroyMarkInvalid
    \/ DestroyTeardown
    \/ ReleaseAllocator

Next == PresenterStep \/ AppStep \/ FlipComplete

Spec == Init /\ [][Next]_vars


\* The display singleton is torn down (process or driver unload) while no
\* call of the swapchain is running
DisplayGone ==
    /\ Alive
    /\ ppc = "idle"
    /\ apc = "idle"
    /\ display
    /\ display' = FALSE
    /\ UNCHANGED << status, imgVars, format_defined, m_allocated_format,
                    drm_format_props, display_modifiers, present_id_enabled,
                    teardown, m_wsi_allocator, pureVars, appVars, kernelVars,
                    presVars, m_first_present, error_state, present_id,
                    mutex, call, hist >>

DisplayLossNext == Next \/ DisplayGone

DisplayLossSpec == Init /\ [][DisplayLossNext]_vars

\* Image creation and allocation alone, on any device and display
FormatNext ==
    \/ InitPlatform
    \/ \E i \in Images : CreateSwapchainImage(i)
    \/ \E i \in Images : AllocateLock(i)
    \/ AllocateImages
    \/ AllocateBind
    \/ CallReturned

FormatSpec == FormatInit /\ [][FormatNext]_vars

\* Image creation and allocation up to the first call that reaches
\* create_framebuffer, which is followed with every answer of the display
\* and the kernel
FramebufferInit ==
    /\ InitCommon
    /\ ~present_id_enabled
    /\ drm_format_props = TypicalProps
    /\ display_modifiers = {1}
    /\ neg = [ stage |-> "idle" ]
    /\ planes = NoPlanes
    /\ fbe = [ stage |-> "idle" ]
    /\ \E inp \in BindInputs : bind = [ stage |-> "chosen", inp |-> inp ]

FramebufferNext ==
    \/ bind.stage = "chosen" /\ InitPlatform
    \/ bind.stage = "chosen" /\ \E i \in Images : CreateSwapchainImage(i)
    \/ bind.stage = "chosen" /\ \E i \in Images : AllocateLock(i)
    \/ bind.stage = "chosen" /\ AllocateImages
    \/ bind.stage = "chosen" /\ CallReturned
    \/ AllocateBindFollowed

FramebufferSpec == FramebufferInit /\ [][FramebufferNext]_vars

\* ------------------------------------------------------------------------
\* frame_boundary.cpp (src/unnamed/part_001)
\* ------------------------------------------------------------------------
MaxChain == 2
MaxFrameEvents == 3

FRAME_BOUNDARY_EXT == "VK_STRUCTURE_TYPE_FRAME_BOUNDARY_EXT"
PRESENT_ID_KHR == "VK_STRUCTURE_TYPE_PRESENT_ID_KHR"
STypes == { FRAME_BOUNDARY_EXT, PRESENT_ID_KHR,
            "VK_STRUCTURE_TYPE_PRESENT_REGIONS_KHR" }

\* the pNext chains of a VkPresentInfoKHR: the sType of each structure
RECURSIVE ChainsOf(_)
ChainsOf(n) ==
    IF n = 0 THEN { << >> }
    ELSE ChainsOf(n - 1) \cup
         { Append(c, t) : c \in { d \in ChainsOf(n - 1) : Len(d) = n - 1 },
                          t \in STypes }
Chains == ChainsOf(MaxChain)

\* util::find_extension: position of the first structure of the chain with
\* the given sType, 0 when there is none
find_extension(sType, chain) ==
    IF \E k \in 1 .. Len(chain) : chain[k] = sType
    THEN CHOOSE k \in 1 .. Len(chain) :
            /\ chain[k] = sType
            /\ \A j \in 1 .. (k - 1) : chain[j] # sType
    ELSE 0

\* std::nullopt
NoBoundary == [ kind |-> "none", at |-> 0, sType |-> "", frameID |-> 0 ]

\* line 66: the structure type that is looked for in the chain
SearchedType == PRESENT_ID_KHR

\* wsi::create_frame_boundary(const VkPresentInfoKHR &), lines 63-75: a copy
\* of the structure that was found
ApplicationBoundary(chain) ==
    LET k == find_extension(SearchedType, chain)
    IN IF k # 0
       THEN [ kind |-> "forwarded", at |-> k, sType |-> chain[k], frameID |-> 0 ]
       ELSE NoBoundary

\* wsi_ext_frame_boundary::create_frame_boundary(VkImage *), lines 82-108
LayerBoundary(id) ==
    [ kind |-> "layer", at |-> 0, sType |-> FRAME_BOUNDARY_EXT, frameID |-> id ]

\* line 92: m_current_frame_boundary_id++ of a layer-generated event
NextFrameId_Stuck(id, layer) == id
NextFrameId(id, layer) == IF layer THEN id + 1 ELSE id

\* the extension object as constructed (lines 35-38), or no extension object
FrameBoundaryInit ==
    /\ InitCommon
    /\ ~present_id_enabled
    /\ drm_format_props = TypicalProps
    /\ display_modifiers = {1}
    /\ neg = [ stage |-> "idle" ]
    /\ planes = NoPlanes
    /\ bind = [ stage |-> "idle" ]
    /\ \E ext \in BOOLEAN, handles \in BOOLEAN :
         fbe = [ stage |-> "ready",
                 ext |-> ext,          \* the swapchain has the extension object
                 m_handle_frame_boundary_events |-> handles,
                 m_current_frame_boundary_id |-> 0,
                 calls |-> 0,          \* calls of handle_frame_boundary_event
                 chain |-> << >>,      \* pNext chain of the latest call
                 ret |-> NoBoundary,   \* what the latest call returned
                 generated |-> FALSE,  \* the latest call made a layer event
                 ids |-> << >> ]       \* frame IDs of the layer events

\* handle_frame_boundary_event, lines 110-120, with the member function of
\* lines 40-61
HandleFrameBoundaryEvent ==
    /\ fbe.stage = "ready"
    /\ fbe.calls < MaxFrameEvents
    /\ \E chain \in Chains :
        LET app == ApplicationBoundary(chain)
            layer == /\ fbe.ext
                     /\ app = NoBoundary
                     /\ fbe.m_handle_frame_boundary_events
            id == fbe.m_current_frame_boundary_id
        IN
        fbe' = [fbe EXCEPT
                  !.calls = @ + 1,
                  !.chain = chain,
                  !.ret = IF app # NoBoundary THEN app
                          ELSE IF layer THEN LayerBoundary(id)
                          ELSE NoBoundary,
                  !.generated = layer,
                  !.m_current_frame_boundary_id = NextFrameId(@, layer),
                  !.ids = IF layer THEN Append(@, id) ELSE @]
    /\ UNCHANGED << status, imgVars, format_defined, m_allocated_format,
                    devVars, teardown, m_wsi_allocator, neg, planes, bind,
                    appVars, presVars, kernelVars, m_first_present,
                    error_state, present_id, mutex, call, hist >>

FrameBoundarySpec == FrameBoundaryInit /\ [][HandleFrameBoundaryEvent]_vars

\* get_surface_compatible_formats, lines 136-252, on any device and display.
\* The modifier list query can fail; a result vector that cannot grow ends
\* the loop at entry k with the lists made so far.
NegotiationInit ==
    /\ InitCommon
    /\ ~present_id_enabled
    /\ drm_format_props \in QueryLists(Modifiers)
    /\ display_modifiers \in SUBSET Modifiers
    /\ neg = [ stage |-> "idle" ]
    /\ planes = NoPlanes
    /\ fbe = [ stage |-> "idle" ]
    /\ bind = [ stage |-> "idle" ]

GetSurfaceCompatibleFormats ==
    /\ neg.stage = "idle"
    /\ \E props_ok \in BOOLEAN, k \in 0 .. Len(drm_format_props) :
        LET full == k = Len(drm_format_props)
            lists == get_surface_compatible_formats(image_create_info,
                        SubSeq(drm_format_props, 1, k), display_modifiers)
        IN
        /\ (~props_ok \/ ~display) => k = 0
        /\ neg' = [ stage |-> "done",
                    result |-> IF props_ok /\ display /\ full THEN VK_SUCCESS
                               ELSE VK_ERROR_OUT_OF_HOST_MEMORY,
                    importable |-> lists.importable,
                    exportable |-> lists.exportable ]
    /\ UNCHANGED << status, imgVars, format_defined, m_allocated_format,
                    devVars, teardown, m_wsi_allocator, planes, fbe, bind,
                    appVars,
                    presVars, kernelVars, m_first_present, error_state,
                    present_id, mutex, call, hist >>

NegotiationSpec == NegotiationInit /\ [][GetSurfaceCompatibleFormats]_vars

\* allocate_wsialloc, lines 305-332, for an allocator result
PlaneInit ==
    /\ InitCommon
    /\ drm_format_props = TypicalProps
    /\ display_modifiers = {1}
    /\ neg = [ stage |-> "idle" ]
    /\ fbe = [ stage |-> "idle" ]
    /\ bind = [ stage |-> "idle" ]
    /\ \E n \in PlaneSlots, avoid \in BOOLEAN :
         \E res \in AllocatorResults(n, avoid) :
            planes = [ stage |-> "allocated", avoid_allocation |-> avoid,
                       alloc_result |-> res ]

ReconcilePlanes ==
    /\ planes.stage = "allocated"
    /\ LET res == planes.alloc_result
           num_memory_planes == CountMemoryPlanes(res.buffer_fds, res.num_planes, 1)
       IN planes' = [ stage |-> "done",
                      avoid_allocation |-> planes.avoid_allocation,
                      alloc_result |-> res,
                      \* lines 313-329; 0: set_num_memories was not called
                      num_memories |-> IF planes.avoid_allocation THEN 0
                                       ELSE num_memory_planes,
                      assert_ok |-> planes.avoid_allocation
                                    \/ (res.is_disjoint = (num_memory_planes > 1)),
                      \* line 331
                      is_disjoint |-> res.is_disjoint,
                      num_planes |-> res.num_planes ]
    /\ UNCHANGED << status, imgVars, format_defined, m_allocated_format,
                    devVars, teardown, m_wsi_allocator, neg, fbe, bind,
                    appVars,
                    presVars, kernelVars, m_first_present, error_state,
                    present_id, mutex, call, hist >>

PlaneSpec == PlaneInit /\ [][ReconcilePlanes]_vars

\* The presentation thread and the kernel keep running; a thread that waits
\* for m_image_status_mutex gets it once it has been released
FairSpec ==
    /\ Spec
    /\ WF_vars(PresenterStep)
    /\ SF_vars(PresentRelease)
    /\ WF_vars(AppStep)
    /\ WF_vars(FlipComplete)

\* ------------------------------------------------------------------------
\* Properties
\* ------------------------------------------------------------------------
LOST == VK_ERROR_SURFACE_LOST_KHR

\* number of times index j was handed to unpresent_image by the running call
RECURSIVE Occurrences(_, _)
Occurrences(seq, j) ==
    IF seq = << >> THEN 0
    ELSE (IF Head(seq) = j THEN 1 ELSE 0) + Occurrences(Tail(seq), j)

\* C1: when a present_image call that did not fail has returned, exactly one
\* image is PRESENTED and it is the image of the call, and every image that
\* was PRESENTED on entry was handed to unpresent_image exactly once (and no
\* other image was).
C1_PresentedIsLatest ==
    (ppc = "done" /\ ~call.lost) =>
        /\ PresentedSet(status) = {pimg}
        /\ \A j \in Images :
              Occurrences(call.released, j) = (IF j \in call.prev THEN 1 ELSE 0)

C1_Witness ==
    /\ ppc = "done"
    /\ ~call.lost
    /\ ~call.first
    /\ call.cb
    /\ call.prev # {}
    /\ call.released # << >>

\* C2: in every reachable state at most one image has status PRESENTED.
C2_AtMostOnePresented == Cardinality(PresentedSet(status)) <= 1

\* C3: a call whose page-flip request was accepted has neither left the wait
\* loop nor written an image status unless page_flip_event has run for that
\* request.
C3_NoExitBeforeCompletion ==
    (call.accepted /\ (ppc # "wait" \/ call.writes # {})) => call.cb

\* C4: when present_image has returned after its mode-set or page-flip ioctl
\* failed, the swapchain is lost, the call wrote no image status and released
\* no image: the requested image is still ACQUIRED and the images PRESENTED
\* on entry still are.
C4_IoctlFailureKeepsStatus ==
    (ppc = "done" /\ call.ioctl_fail) =>
        /\ error_state = LOST
        /\ call.writes = {}
        /\ call.released = << >>
        /\ status[pimg] = "ACQUIRED"
        /\ PresentedSet(status) = call.prev

C4_Witness ==
    /\ ppc = "done"
    /\ call.ioctl_fail
    /\ call.flips = 1
    /\ call.prev # {}

C6_LostIsSticky ==
    (ppc # "idle" /\ call.was_lost) =>
        (call.modesets = 0 /\ call.flips = 0 /\ call.writes = {})

\* C7: a present_image call entered before any present succeeded issues
\* exactly one mode-set and no page flip, every other call exactly one page
\* flip and no mode-set, in both cases for the framebuffer of the image of
\* the call; and once a mode-set has succeeded and its call has returned, the
\* swapchain is in steady state, so that no later call issues a mode-set.
C7_ModeSetThenPageFlips ==
    /\ (ppc # "idle") =>
          /\ call.ioctl_fb = fb_id[pimg]
          /\ IF call.first
             THEN call.modesets = 1 /\ call.flips = 0
             ELSE call.modesets = 0 /\ call.flips = 1
    /\ (hist.setcrtc_ok /\ ppc = "idle") => ~m_first_present
    /\ (hist.setcrtc_ok /\ ppc # "idle" /\ ~call.first) => call.modesets = 0

C7_Witness ==
    /\ hist.setcrtc_ok
    /\ ppc = "wait"
    /\ call.flips = 1
    /\ call.modesets = 0
    /\ call.ioctl_fb = fb_id[pimg]
    /\ crtc_fb # 0
    /\ crtc_fb # fb_id[pimg]

\* C8: as long as every select() of a call whose page flip was accepted was
\* interrupted (EINTR, EAGAIN) or timed out, the call is still in the wait
\* loop and has not put the swapchain in the lost state; and a call whose
\* page flip was accepted has issued exactly one page-flip request.
C8_TransientWaitsRetried ==
    /\ (call.accepted /\ call.select \in {"NONE", "EINTR", "EAGAIN", "TIMEOUT"})
          => (ppc = "wait" /\ ~call.lost)
    /\ call.accepted => (call.flips = 1 /\ call.modesets = 0)

C8_Witness ==
    /\ ppc = "wait"
    /\ call.accepted
    /\ call.select = "EAGAIN"
    /\ ~fds
    /\ error_state = VK_SUCCESS

\* C9: once the completion event of the call's page flip is readable while
\* the call waits, the call eventually returns.
C9_EventLeadsToReturn ==
    (ppc = "wait" /\ call.accepted /\ evq_cur) ~> (ppc = "done")

\* C10: no write of an image status by allocate_and_bind_swapchain_image,
\* present_image or destroy_image was made by a thread that did not hold
\* m_image_status_mutex.
C10_StatusWritesLocked ==
    hist.unlocked_writes \cap {"allocate_and_bind_swapchain_image",
                               "present_image", "destroy_image"} = {}


\* C11: no image has a status other than INVALID while destroy_image has
\* already torn down one of its resources (GPU image destroyed, kernel
\* framebuffer removed or backend data freed).
C11_InvalidBeforeTeardown ==
    \A i \in hist.torn : status[i] = "INVALID"

\* C12: when destroy_image has returned for an image, the image has no GPU
\* image handle, no backend data and no live kernel framebuffer.
C12_DestroyedHoldsNothing ==
    (apc = "returned" /\ acall.op = "destroy") =>
        /\ ~image[aimg]
        /\ ~data[aimg]
        /\ fb_id[aimg] \notin kfb

\* C13: a destroy_image call on an image for which destroy_image has already
\* returned issues no GPU image destruction, no framebuffer removal and no
\* free of the backend data, and changes no image status, no image resource
\* and no kernel framebuffer.
C13_DestroyIdempotent ==
    /\ [](acall.repeat => acall.issued = {})
    /\ [][acall.repeat => UNCHANGED << status, imgVars, kfb >>]_vars

C13_Witness ==
    /\ apc = "returned"
    /\ acall.op = "destroy"
    /\ acall.repeat
    /\ aimg \in hist.torn
    /\ display

C15_FramebufferLifetime ==
    /\ (call.modesets + call.flips > 0) =>
          (call.ioctl_fb # FB_SENTINEL /\ call.fb_live)
    /\ ~hist.rm_scanout

C17_FailedAllocationNotFree ==
    (apc = "returned" /\ acall.op = "allocate" /\ aresult # VK_SUCCESS) =>
        status[aimg] # "FREE"

\* C18: when device and display have no modifier in common,
\* create_swapchain_image returns out-of-host-memory or initialization-failed,
\* has requested no allocation, has created no GPU image and has left the
\* cached image-creation parameters unset.
C18_NoCommonModifierFails ==
    (apc = "returned" /\ acall.op = "create" /\ acall.no_common) =>
        /\ aresult \in {VK_ERROR_OUT_OF_HOST_MEMORY,
                        VK_ERROR_INITIALIZATION_FAILED}
        /\ acall.requests = << >>
        /\ ~image[aimg]
        /\ ~format_defined
        /\ m_allocated_format = NoFormat

C18_Witness ==
    /\ apc = "returned"
    /\ acall.op = "create"
    /\ acall.no_common
    /\ acall.negotiated
    /\ aresult = VK_ERROR_INITIALIZATION_FAILED
    /\ Len(drm_format_props) = NumModifiers
    /\ display_modifiers = {}
    /\ data[aimg]

\* C19: a call in which the allocator answered not-supported has returned
\* format-not-supported, one in which it answered any other error has
\* returned out-of-host-memory, and in both cases the cached allocated format
\* and the image's external-memory description are what they were on entry.
C19_AllocatorErrorsMapped ==
    (apc = "returned" /\ acall.wsialloc \in WsiallocErrors) =>
        /\ aresult = (IF acall.wsialloc = "WSIALLOC_ERROR_NOT_SUPPORTED"
                      THEN VK_ERROR_FORMAT_NOT_SUPPORTED
                      ELSE VK_ERROR_OUT_OF_HOST_MEMORY)
        /\ m_allocated_format = acall.pre_format
        /\ buffers[aimg] = acall.pre_buffers

C19_Witness ==
    /\ apc = "returned"
    /\ acall.op = "allocate"
    /\ acall.wsialloc = "WSIALLOC_ERROR_NOT_SUPPORTED"
    /\ aresult = VK_ERROR_FORMAT_NOT_SUPPORTED
    /\ m_allocated_format # NoFormat
    /\ buffers[aimg] = "unset"

\* C20: the format negotiation runs at most once, every image is created and
\* allocated with one and the same format and modifier, and once the cached
\* image-creation parameters are set neither they nor the cached allocated
\* format change.
C20_FormatCachedOnce ==
    /\ [](/\ hist.negotiations <= 1
          /\ Cardinality(hist.formats) <= 1
          /\ format_defined => hist.formats = {m_allocated_format})
    /\ [][format_defined =>
             (format_defined' /\ m_allocated_format' = m_allocated_format)]_vars

C20_Witness ==
    /\ \A i \in Images : buffers[i] = "allocated"
    /\ Len(get_surface_compatible_formats(image_create_info, drm_format_props,
                                          display_modifiers).importable) > 1
    /\ hist.formats = {m_allocated_format}
    /\ m_allocated_format.modifier = NumModifiers


C27_MemoryPlanesAreDistinctHandles ==
    (planes.stage = "done" /\ ~planes.avoid_allocation) =>
        planes.num_memories =
            Cardinality({ planes.alloc_result.buffer_fds[k] :
                            k \in 1 .. planes.num_planes })

C27_Witness ==
    /\ planes.stage = "done"
    /\ ~planes.avoid_allocation
    /\ planes.num_planes = 3
    /\ planes.alloc_result.buffer_fds[1] = planes.alloc_result.buffer_fds[3]
    /\ planes.alloc_result.buffer_fds[1] # planes.alloc_result.buffer_fds[2]
    /\ planes.alloc_result.buffer_fds[4] = NoFd
    /\ planes.num_memories = 2


\* position of modifier m in the device's modifier list
ListedAt(m) == CHOOSE k \in 1 .. Len(drm_format_props) :
                  drm_format_props[k].drmFormatModifier = m

\* the image of the request fits the limits reported for the entry
FitsLimits(prop) ==
    /\ prop.limits.maxExtent.width >= image_create_info.extent.width
    /\ prop.limits.maxExtent.height >= image_create_info.extent.height
    /\ prop.limits.maxExtent.depth >= image_create_info.extent.depth
    /\ prop.limits.maxMipLevels >= image_create_info.mipLevels
    /\ prop.limits.maxArrayLayers >= image_create_info.arrayLayers
    /\ image_create_info.samples \in prop.limits.sampleCounts

\* C22: every modifier in the importable list or in the exportable list made
\* by get_surface_compatible_formats is a modifier the display supports.
C22_ListsWithinDisplay ==
    (neg.stage = "done") =>
        /\ \A j \in 1 .. Len(neg.importable) :
              neg.importable[j].modifier \in display_modifiers
        /\ \A j \in 1 .. Len(neg.exportable) :
              neg.exportable[j] \in display_modifiers

C22_Witness ==
    /\ neg.stage = "done"
    /\ neg.result = VK_SUCCESS
    /\ Len(drm_format_props) = NumModifiers
    /\ Len(neg.importable) = 1
    /\ Len(neg.exportable) = 1
    /\ Cardinality(display_modifiers) = 1
    /\ \A k \in 1 .. Len(drm_format_props) :
          /\ drm_format_props[k].importable
          /\ drm_format_props[k].result = VK_SUCCESS
          /\ FitsLimits(drm_format_props[k])

\* C26: when get_surface_compatible_formats succeeds, a modifier of the
\* device's list is in the importable list iff the display supports it, the
\* capability query succeeded, the image fits the reported limits and the
\* import bit is set, and in the exportable list iff the same holds with the
\* export bit; both lists are in the order of the device's list, and an
\* importable entry has the non-disjoint flag iff the modifier lacks the
\* disjoint feature.
C26_ModifiersClassified ==
    (neg.stage = "done" /\ neg.result = VK_SUCCESS) =>
        /\ \A k \in 1 .. Len(drm_format_props) :
              LET prop == drm_format_props[k]
                  usable == /\ prop.drmFormatModifier \in display_modifiers
                            /\ prop.result = VK_SUCCESS
                            /\ FitsLimits(prop)
              IN
              /\ (\E j \in 1 .. Len(neg.importable) :
                     neg.importable[j].modifier = prop.drmFormatModifier)
                    <=> (usable /\ prop.importable)
              /\ (\E j \in 1 .. Len(neg.exportable) :
                     neg.exportable[j] = prop.drmFormatModifier)
                    <=> (usable /\ prop.exportable)
        /\ \A i, j \in 1 .. Len(neg.importable) :
              i < j => ListedAt(neg.importable[i].modifier)
                          < ListedAt(neg.importable[j].modifier)
        /\ \A i, j \in 1 .. Len(neg.exportable) :
              i < j => ListedAt(neg.exportable[i]) < ListedAt(neg.exportable[j])
        /\ \A j \in 1 .. Len(neg.importable) :
              /\ neg.importable[j].fourcc = Fourcc
              /\ ("NON_DISJOINT" \in neg.importable[j].flags)
                    <=> ~drm_format_props[ListedAt(neg.importable[j].modifier)].disjoint

C26_Witness ==
    /\ neg.stage = "done"
    /\ neg.result = VK_SUCCESS
    /\ Len(drm_format_props) = NumModifiers
    /\ drm_format_props[1].drmFormatModifier = NumModifiers
    /\ Len(neg.importable) = NumModifiers
    /\ Len(neg.exportable) = 1
    /\ neg.importable[1].flags = {}
    /\ neg.importable[NumModifiers].flags = {"NON_DISJOINT"}


\* create_framebuffer of the followed call fails
FramebufferFails ==
    \/ ~display
    \/ bind.inp.prime_fail # 0
    \/ ~bind.inp.fmt_ok
    \/ bind.inp.addfb_fails

\* C23: when create_framebuffer fails (a handle conversion fails, the display
\* does not support the allocated format or the creation ioctl fails),
\* allocate_and_bind_swapchain_image returns initialization-failed, the
\* framebuffer id of the image is still the sentinel, no memory was imported
\* and no presentation fence was created.
C23_FramebufferFailure ==
    (bind.stage = "done" /\ FramebufferFails) =>
        /\ bind.fb.result = VK_ERROR_INITIALIZATION_FAILED
        /\ apc = "returned"
        /\ aresult = VK_ERROR_INITIALIZATION_FAILED
        /\ fb_id[bind.img] = FB_SENTINEL
        /\ kfb = {}
        /\ ~memory[bind.img]
        /\ ~present_fence[bind.img]

C23_Witness ==
    /\ bind.stage = "done"
    /\ display
    /\ bind.inp.prime_fail = 0
    /\ bind.inp.fmt_ok
    /\ bind.inp.addfb_fails
    /\ bind.inp.import_ok
    /\ bind.inp.fence_ok
    /\ bind.fb.ioctls # << >>
    /\ aresult = VK_ERROR_INITIALIZATION_FAILED

\* C29: create_framebuffer issues a creation ioctl only after the handle of
\* every plane was converted and the display reported the allocated format
\* as supported; the ioctl is the one with modifiers iff the display
\* supports framebuffer modifiers, the legacy one otherwise; a call that
\* succeeds has issued exactly one creation ioctl.
C29_CreationIoctl ==
    (bind.stage = "done") =>
        /\ Len(bind.fb.ioctls) <= 1
        /\ (bind.fb.ioctls # << >>) =>
              /\ display
              /\ bind.inp.prime_fail = 0
              /\ bind.fb.converted = bind.inp.num_planes
              /\ bind.fb.format_checked /\ bind.inp.fmt_ok
              /\ bind.fb.ioctls[1] = (IF bind.inp.fb_modifiers
                                      THEN "drmModeAddFB2WithModifiers"
                                      ELSE "drmModeAddFB2")
        /\ (bind.fb.result = VK_SUCCESS) =>
              (Len(bind.fb.ioctls) = 1 /\ fb_id[bind.img] \in kfb)

C29_Witness ==
    /\ bind.stage = "done"
    /\ bind.fb.result = VK_SUCCESS
    /\ bind.inp.num_planes = 3
    /\ bind.inp.fb_modifiers
    /\ bind.fb.ioctls = << "drmModeAddFB2WithModifiers" >>
    /\ aresult = VK_SUCCESS
    /\ fb_id[bind.img] # FB_SENTINEL


C25_AllocatorReleasedOnce ==
    /\ hist.deletes <= 1
    /\ hist.destructed =>
          /\ hist.deletes = (IF hist.init_platform = "ok" THEN 1 ELSE 0)
          /\ ~m_wsi_allocator
    /\ (hist.deletes > 0) => (teardown /\ hist.destroyed = Images)
    /\ ~hist.destructed => (m_wsi_allocator <=> hist.init_platform = "ok")
    /\ ~hist.stale_alloc
    /\ hist.destructed => acall.requests = << >>

C25_Witness ==
    /\ hist.destructed
    /\ hist.deletes = 1
    /\ hist.torn = Images
    /\ hist.formats # {}
    /\ ~m_wsi_allocator

\* C28: the allocation without memory is requested at most once, by the
\* creation of the first image while no image exists, and it has been
\* requested once the image-creation parameters are cached; every request of
\* allocate_image is one with memory whose only candidate is the cached
\* allocated format.
C28_ProbeOnce ==
    /\ hist.probes <= 1
    /\ format_defined => hist.probes = 1
    /\ \A k \in 1 .. Len(acall.requests) :
          LET req == acall.requests[k]
          IN IF acall.op = "create"
             THEN /\ IsProbe(req)
                  /\ req.images = {}
                  /\ \A j \in Images : aimg <= j
                  /\ hist.probes = 1
             ELSE /\ acall.op = "allocate"
                  /\ req.flags = {}
                  /\ format_defined
                  /\ hist.probes = 1
                  /\ Len(req.candidates) = 1
                  /\ req.candidates[1] = acall.pre_format
                  /\ acall.pre_format # NoFormat

C28_Witness ==
    /\ apc = "returned"
    /\ acall.op = "allocate"
    /\ Len(acall.requests) = 1
    /\ \A j \in Images : j <= aimg
    /\ hist.probes = 1
    /\ Len(get_surface_compatible_formats(image_create_info, drm_format_props,
                                          display_modifiers).importable) > 1


\* C30: a call of handle_frame_boundary_event whose chain holds a
\* frame-boundary structure returns that structure and generates no layer
\* event; a call whose chain holds none returns a layer-generated frame
\* boundary iff the layer handles frame boundary events, and nothing
\* otherwise; a structure of another type is never returned.
C30_ApplicationFirst ==
    (fbe.stage = "ready" /\ fbe.calls > 0) =>
        LET k == find_extension(FRAME_BOUNDARY_EXT, fbe.chain)
        IN
        /\ (k # 0) => /\ fbe.ret.kind = "forwarded"
                      /\ fbe.ret.at = k
                      /\ ~fbe.generated
        /\ (k = 0) => /\ fbe.ret.kind =
                            (IF fbe.ext /\ fbe.m_handle_frame_boundary_events
                             THEN "layer" ELSE "none")
                      /\ fbe.generated = (fbe.ret.kind = "layer")
        /\ (fbe.ret.kind # "none") => fbe.ret.sType = FRAME_BOUNDARY_EXT


\* C31: the k-th layer-generated frame boundary has the frame ID start+k-1
\* (start is 0), the counter is start plus the number of layer-generated
\* events, and a call advances it by one when it returns a layer-generated
\* event and leaves it alone when it forwards a structure of the chain or
\* returns nothing.
C31_FrameIdsConsecutive ==
    /\ [](fbe.stage = "ready" =>
            /\ \A k \in 1 .. Len(fbe.ids) : fbe.ids[k] = k - 1
            /\ fbe.m_current_frame_boundary_id = Len(fbe.ids)
            /\ (fbe.ret.kind = "layer") =>
                  /\ Len(fbe.ids) > 0
                  /\ fbe.ret.frameID = fbe.ids[Len(fbe.ids)])
    /\ [][(fbe.stage = "ready" /\ fbe'.calls = fbe.calls + 1) =>
             /\ fbe'.m_current_frame_boundary_id =
                   fbe.m_current_frame_boundary_id
                      + (IF fbe'.ret.kind = "layer" THEN 1 ELSE 0)
             /\ Len(fbe'.ids) =
                   Len(fbe.ids) + (IF fbe'.ret.kind = "layer" THEN 1 ELSE 0)]_vars

C31_Witness ==
    /\ fbe.stage = "ready"
    /\ fbe.calls = MaxFrameEvents
    /\ Len(fbe.ids) = 2
    /\ fbe.ret.kind = "layer"
    /\ fbe.ret.frameID = 1
    /\ fbe.chain # << >>


\* C32: with present-id enabled, the step of present_image that publishes the
\* present id of its request has marked the image of the request PRESENTED
\* and has released no image yet; the step that releases the previously
\* presented image finds the id of the request published; a call that fails
\* in the display lookup, the mode-set or the page-flip request publishes
\* nothing and leaves the published present id as it was.
C32_PresentIdAfterMark ==
    /\ [](/\ (call.published # << >>) =>
                /\ present_id_enabled
                /\ call.published = << preq_id >>
                /\ pimg \in { m.img : m \in call.marked }
          /\ (ppc = "done" /\ call.lost /\ (call.ioctl_fail \/ ~display)) =>
                call.published = << >>)
    /\ [][(Len(call'.published) > Len(call.published)) =>
             /\ status'[pimg] = "PRESENTED"
             /\ present_id' = preq_id
             /\ call'.released = << >>]_vars
    /\ [][(Len(call'.released) > Len(call.released) /\ present_id_enabled) =>
             /\ call.published = << preq_id >>
             /\ present_id = preq_id
             /\ status[pimg] = "PRESENTED"]_vars
    /\ [][(ppc = "idle" /\ ppc' = "done") =>
             /\ call'.lost
             /\ call'.ioctl_fail \/ ~display
             /\ present_id' = present_id]_vars

C32_Witness ==
    /\ ppc = "done"
    /\ present_id_enabled
    /\ ~call.first
    /\ call.published = << preq_id >>
    /\ call.released # << >>
    /\ present_id = preq_id
    /\ status[pimg] = "PRESENTED"


\* C33: no operation issues a display ioctl (handle conversion, framebuffer
\* add or remove, mode-set, page flip) while there is no display; without a
\* display present_image puts the swapchain in the lost state and changes no
\* image status, create_framebuffer returns initialization-failed, the format
\* negotiation returns an error, destroy_image removes no framebuffer, and
\* no step adds or removes a kernel framebuffer.
C33_NoIoctlWithoutDisplay ==
    /\ [](/\ hist.blind = {}
          /\ (~display /\ ppc = "done") =>
                /\ error_state = VK_ERROR_SURFACE_LOST_KHR
                /\ call.lost
                /\ call.modesets = 0 /\ call.flips = 0
                /\ call.writes = {}
                /\ PresentedSet(status) = call.prev
          /\ (~display /\ apc = "returned" /\ acall.op = "allocate"
                /\ acall.wsialloc = "WSIALLOC_ERROR_NONE") =>
                /\ aresult = VK_ERROR_INITIALIZATION_FAILED
                /\ fb_id[aimg] = FB_SENTINEL
          /\ (~display /\ apc = "returned" /\ acall.op = "create"
                /\ acall.negotiated) =>
                /\ aresult # VK_SUCCESS
                /\ acall.requests = << >>
          /\ (~display /\ apc = "returned" /\ acall.op = "destroy") =>
                "RmFB" \notin acall.issued)
    /\ [][~display => kfb' = kfb]_vars

C33_Witness ==
    /\ ~display
    /\ ppc = "done"
    /\ ~call.first
    /\ call.lost
    /\ call.prev # {}
    /\ status[pimg] = "ACQUIRED"
    /\ fb_id[pimg] \in kfb

====
